---- MODULE Spec2Model ----
(***************************************************************************)
(* Media ingestion and storage pipeline of propspacex-media-service:       *)
(* MediaService (media.service.ts) over the Media collection               *)
(* (media.model.ts) and one of three storage providers.                    *)
(*                                                                         *)
(* Strings that the code takes apart (file names, storage keys) are        *)
(* sequences of tokens: "." and "/" are tokens of their own, every other   *)
(* token is a non-empty run of characters holding neither.                 *)
(* Every `await` of a service method is one step of the calling request;   *)
(* requests of different callers interleave between steps.                 *)
(***************************************************************************)
EXTENDS Integers, Sequences, FiniteSets, TLC

VARIABLES
    provider,   \* config.storageProvider, fixed at process start
    records,    \* the Media collection: id -> document
    objects,    \* the backend's objects: backend key -> stored buffer
    now,        \* the wall clock the store stamps documents with
    nextSeq,    \* number of file names generated so far (uuid freshness)
    pc,         \* per request slot: the await it is suspended at
    op,         \* per request slot: the locals of the running method
    last,       \* the outcome of the call that returned in the step just taken, if one did
    history     \* history: per upload, which backend writes completed and how it ended

vars == <<provider, records, objects, now, nextSeq, pc, op, last, history>>

-----------------------------------------------------------------------------
(* Bounds of the model *)

MaxUploads == 1
MaxClock == 1
SeedCount == 2
MaxBatch == 2
MaxRacers == 2

\* Request slots: p1 runs any call, p2 is a concurrent reader
Procs == {"p1", "p2"}

Writers == {"p1"}

-----------------------------------------------------------------------------
(* Configuration (dotenv.config) *)

maxFileSize == 52428800

allowedImageTypes == <<"image/jpeg", "image/png", "image/webp", "image/gif">>

allowedVideoTypes == <<"video/mp4", "video/webm", "video/quicktime">>

\* ALLOWED_DOCUMENT_TYPES of a deployment that also admits plain text; the list
\* is the operator's to set and "application/pdf" when the variable is unset
allowedDocumentTypes == <<"application/pdf", "text/plain">>

Providers == {"s3", "cloudinary", "local"}

-----------------------------------------------------------------------------
(* Inputs *)

\* Express.Multer.File values offered to upload. Of the image library, probe is
\* what sharp reports for the processed rendition (its byte length included) and
\* thumbProbe what it reports for the thumbnail.
Files ==
    { [originalname |-> <<"photo", ".", "JPG">>, mimetype |-> "image/jpeg",
       size |-> maxFileSize, buffer |-> <<"b1">>,
       probe |-> [width |-> 800, height |-> 600, size |-> 4000],
       thumbProbe |-> [width |-> 300, height |-> 200]],
      [originalname |-> <<"scan">>, mimetype |-> "image/png",
       size |-> 1000, buffer |-> <<"b2">>,
       probe |-> [width |-> 640, height |-> 480, size |-> 500],
       thumbProbe |-> [width |-> 300, height |-> 200]],
      [originalname |-> <<"lease", ".", "pdf">>, mimetype |-> "application/pdf",
       size |-> 1000, buffer |-> <<"b3">>,
       probe |-> [width |-> 0, height |-> 0, size |-> 0],
       thumbProbe |-> [width |-> 0, height |-> 0]],
      [originalname |-> <<"tour", ".", "mp4">>, mimetype |-> "video/mp4",
       size |-> maxFileSize + 1, buffer |-> <<"b4">>,
       probe |-> [width |-> 0, height |-> 0, size |-> 0],
       thumbProbe |-> [width |-> 0, height |-> 0]],
      [originalname |-> <<"blob", ".", "bin">>, mimetype |-> "application/x-unknown",
       size |-> 1000, buffer |-> <<"b5">>,
       probe |-> [width |-> 0, height |-> 0, size |-> 0],
       thumbProbe |-> [width |-> 0, height |-> 0]],
      [originalname |-> <<"blob", ".", "bin">>, mimetype |-> "application/x-unknown",
       size |-> maxFileSize + 1, buffer |-> <<"b6">>,
       probe |-> [width |-> 0, height |-> 0, size |-> 0],
       thumbProbe |-> [width |-> 0, height |-> 0]],
      [originalname |-> <<"notes", ".", "txt">>, mimetype |-> "text/plain",
       size |-> 1000, buffer |-> <<"b7">>,
       probe |-> [width |-> 0, height |-> 0, size |-> 0],
       thumbProbe |-> [width |-> 0, height |-> 0]] }

\* UploadMediaOptions offered to upload; entityId and fieldName are free text.
Placements ==
    { [entityType |-> "user", entityId |-> <<"u1">>,
       fieldName |-> <<"avatar">>, uploadedBy |-> "alice"],
      [entityType |-> "property", entityId |-> <<"p", ".", "7">>,
       fieldName |-> <<"images">>, uploadedBy |-> "bob"] }

\* Ids a caller may ask for: every id the store can issue, and 0, which it never issues.
QueryIds == 0 .. MaxUploads

-----------------------------------------------------------------------------
(* String helpers *)

RECURSIVE LastIndexOf(_, _, _)
\* String.prototype.lastIndexOf restricted to s[1..n]; 0 when absent
LastIndexOf(s, tok, n) ==
    IF n = 0 THEN 0
    ELSE IF s[n] = tok THEN n
    ELSE LastIndexOf(s, tok, n - 1)

Includes(seq, x) == \E i \in 1 .. Len(seq) : seq[i] = x

StartsWith(mime, prefix) ==
    CASE prefix = "image/" -> mime \in {"image/jpeg", "image/png", "image/webp", "image/gif", "image/bmp"}
      [] prefix = "video/" -> mime \in {"video/mp4", "video/webm", "video/quicktime"}
      [] prefix = "application/" -> mime \in {"application/pdf", "application/x-unknown"}
      [] OTHER -> FALSE

ToLowerCase(tok) ==
    CASE tok = "JPG" -> "jpg"
      [] tok = "PNG" -> "png"
      [] tok = "PDF" -> "pdf"
      [] OTHER -> tok

-----------------------------------------------------------------------------
(* file.utils *)

NoType == "none"

getMediaTypeFromMime(mimeType) ==
    IF StartsWith(mimeType, "image/") THEN "image"
    ELSE IF StartsWith(mimeType, "video/") THEN "video"
    ELSE IF StartsWith(mimeType, "application/") THEN "document"
    ELSE NoType   \* throws Error("Unsupported MIME type")

isAllowedMimeType(mimeType) ==
    Includes(allowedImageTypes \o allowedVideoTypes \o allowedDocumentTypes, mimeType)

isAllowedFileSize_Strict(size) == size < maxFileSize

isAllowedFileSize(size) == size <= maxFileSize

getFileExtension(filename) ==
    LET lastDot == LastIndexOf(filename, ".", Len(filename))
    IN  IF lastDot # 0
        THEN [i \in 1 .. (Len(filename) - lastDot + 1) |-> ToLowerCase(filename[lastDot + i - 1])]
        ELSE <<>>

validateFile(file) ==
    IF ~isAllowedMimeType(file.mimetype)
    THEN [valid |-> FALSE, error |-> "File type is not allowed"]
    ELSE IF ~isAllowedFileSize(file.size)
    THEN [valid |-> FALSE, error |-> "File size exceeds maximum allowed size"]
    ELSE [valid |-> TRUE, error |-> ""]

-----------------------------------------------------------------------------
(* error.middleware *)

\* The errors thrown as HttpError subclasses, with their statusCode
HttpErrors == [BadRequest |-> 400, NotFound |-> 404]

\* errorMiddleware(err): the statusCode the caller receives for a call that threw.
\* A BadRequestError or NotFoundError answers with its own statusCode; a plain
\* Error, a Mongoose ValidationError and a provider's error carry none and fall
\* to the default branch.
errorMiddleware(status) ==
    IF status \in DOMAIN HttpErrors THEN HttpErrors[status] ELSE 500

-----------------------------------------------------------------------------
(* Storage keys *)

\* The timestamp-uuid tokens generateFileName issues, in the order of the calls
UniqueToks == <<"t1-uuid1", "t2-uuid2", "t3-uuid3", "t4-uuid4">>

\* The name is the extension alone, without the timestamp and the uuid
generateFileName_Plain(seq, originalName) == <<"file">> \o getFileExtension(originalName)

\* `${timestamp}-${uuid}${ext}`: the timestamp-uuid part is one fresh token per call
generateFileName(seq, originalName) == <<UniqueToks[seq]>> \o getFileExtension(originalName)

generateStoragePath(entityType, entityId, fieldName, fileName) ==
    <<entityType, "/">> \o entityId \o <<"/">> \o fieldName \o <<"/">> \o fileName

\* Where /(\.[^.]+)$/ matches: at the last ".", when at least one character follows it
ExtMatch(key) ==
    LET lastDot == LastIndexOf(key, ".", Len(key))
    IN  IF lastDot # 0 /\ lastDot < Len(key) THEN lastDot ELSE 0

\* storagePath.replace(/(\.[^.]+)$/, "-thumb.webp")
ThumbPath(storagePath) ==
    IF ExtMatch(storagePath) # 0
    THEN SubSeq(storagePath, 1, ExtMatch(storagePath) - 1) \o <<"-thumb", ".", "webp">>
    ELSE storagePath

\* key.replace(/\.[^.]+$/, "")
PublicId(key) ==
    IF ExtMatch(key) # 0 THEN SubSeq(key, 1, ExtMatch(key) - 1) ELSE key

getResourceType(mimeType) ==
    IF StartsWith(mimeType, "image/") THEN "image"
    ELSE IF StartsWith(mimeType, "video/") THEN "video"
    ELSE "raw"

-----------------------------------------------------------------------------
(* Storage providers: S3Provider, CloudinaryProvider, LocalProvider.         *)
(* An S3 object or local file is kept under the key it was given; a          *)
(* Cloudinary asset is kept under <<resource type, ":">> \o public id.       *)

Put(f, k, v) == [x \in (DOMAIN f) \cup {k} |-> IF x = k THEN v ELSE f[x]]

Remove(f, ks) == [x \in (DOMAIN f) \ ks |-> f[x]]

\* The values config.storageProvider can hold: STORAGE_PROVIDER is read as it is
\* (the cast to the union type checks nothing), "local" when it is unset or empty
StorageSettings == Providers \cup {"gcs"}

\* createStorageProvider(): the variant the process works with. In the operators
\* below prov is the setting, and every setting other than "cloudinary" and "s3"
\* behaves as the local provider does.
createStorageProvider(setting) ==
    CASE setting = "s3" -> "s3"
      [] setting = "cloudinary" -> "cloudinary"
      [] OTHER -> "local"

\* The backend key under which provider.upload(buffer, key, mimeType) stores
UploadKey(prov, key, mimeType) ==
    IF prov = "cloudinary"
    THEN <<getResourceType(mimeType), ":">> \o PublicId(key)
    ELSE key

\* The backend key that provider.delete(key) and deleteMany remove
DeleteKey(prov, key) ==
    IF prov = "cloudinary"
    THEN <<"image", ":">> \o key   \* uploader.destroy(key): resource_type defaults to image
    ELSE key

ProviderUpload(prov, objs, buffer, key, mimeType) ==
    Put(objs, UploadKey(prov, key, mimeType), buffer)

\* The url of the { url, key } that provider.upload returns
ProviderUrl(prov, key, mimeType) ==
    <<createStorageProvider(prov), "://">> \o UploadKey(prov, key, mimeType)

ProviderDelete(prov, objs, key) == Remove(objs, {DeleteKey(prov, key)})

ProviderDeleteMany(prov, objs, keys) ==
    Remove(objs, {DeleteKey(prov, keys[i]) : i \in 1 .. Len(keys)})

-----------------------------------------------------------------------------
(* The Media collection (media.model.ts) *)

PreFind_NoHook(doc) == TRUE

\* pre("find") and pre("findOne"): this.where({ isActive: true })
PreFind(doc) == doc.isActive = TRUE

\* The schema accepts any string as storageProvider
SchemaValid_NoEnum(doc) == doc.thumbnail.url # <<>>

\* mediaThumbnailSchema: url is a required String, and the required validator of
\* a String path rejects the empty string; width and height are required Numbers,
\* which 0 satisfies. storageProvider is a required String with
\* enum: Object.values(StorageProvider).
SchemaValid(doc) ==
    /\ doc.thumbnail.url # <<>>
    /\ doc.storageProvider \in Providers

\* Media.findById(id): a findOne, so the hook applies
FindByIdHits(recs, id) == id \in DOMAIN recs /\ PreFind(recs[id])

\* Media.find({ _id: { $in: ids } }): the ids of the documents returned
FindIdsIn(recs, ids) == {id \in DOMAIN recs : Includes(ids, id) /\ PreFind(recs[id])}

\* The update replaces the document's thumbnail by the schema's empty one
Stamp_DropsThumbnail(doc, patch, t) ==
    [f \in DOMAIN doc |->
        IF f \in DOMAIN patch THEN patch[f]
        ELSE IF f = "updatedAt" THEN t
        ELSE IF f = "thumbnail" THEN [url |-> <<>>, width |-> 0, height |-> 0]
        ELSE doc[f]]

\* timestamps: true stamps updatedAt on every update
Stamp(doc, patch, t) ==
    [f \in DOMAIN doc |->
        IF f \in DOMAIN patch THEN patch[f]
        ELSE IF f = "updatedAt" THEN t
        ELSE doc[f]]

\* The update inserts a document for an id the collection does not hold (upsert)
UpdateIn_Upsert(recs, ids, patch, t) ==
    [id \in (DOMAIN recs) \cup ids |->
        IF id \in DOMAIN recs
        THEN (IF id \in ids THEN Stamp(recs[id], patch, t) ELSE recs[id])
        ELSE patch @@ [id |-> id, createdAt |-> t, updatedAt |-> t]]

\* Media.findByIdAndUpdate(id, patch) / updateMany({ _id: { $in: ids } }, patch):
\* no find hook applies to updates
UpdateIn(recs, ids, patch, t) ==
    [id \in DOMAIN recs |-> IF id \in ids THEN Stamp(recs[id], patch, t) ELSE recs[id]]

\* Media.findByIdAndDelete(id) / deleteMany({ _id: { $in: ids } })
DeleteIn(recs, ids) == [id \in (DOMAIN recs) \ ids |-> recs[id]]

-----------------------------------------------------------------------------
(* MediaService.uploadMedia *)

Idle == [name |-> "idle"]

NoCall == [op |-> "none"]

UploadStoragePath(u) ==
    generateStoragePath(u.options.entityType, u.options.entityId, u.options.fieldName,
                        generateFileName(u.seq, u.file.originalname))

UploadType(u) == getMediaTypeFromMime(u.file.mimetype)

\* processImage's output buffer and createThumbnail's output buffer
ProcessedBuffer(buffer) == <<"webp80">> \o buffer

ThumbBuffer(buffer) == <<"thumb75">> \o buffer

UploadBuffer(u) ==
    IF UploadType(u) = "image" THEN ProcessedBuffer(u.file.buffer) ELSE u.file.buffer

\* uploadBuffer.length: the processed rendition has a length of its own
BufferLength(u) ==
    IF UploadType(u) = "image" THEN u.file.probe.size ELSE u.file.size

NoDimensions == [width |-> 0, height |-> 0]

\* The document Media.create receives (lines 118-142), stamped by the store
NewDoc(u, prov, t) ==
    LET storagePath == UploadStoragePath(u)
        isImage == UploadType(u) = "image"
        width == IF isImage THEN u.file.probe.width ELSE 0
        height == IF isImage THEN u.file.probe.height ELSE 0
        ext == getFileExtension(u.file.originalname)
    IN  [ id |-> u.seq,
          fileName |-> generateFileName(u.seq, u.file.originalname),
          url |-> ProviderUrl(prov, storagePath, u.file.mimetype),
          thumbnail |->
              IF isImage
              THEN [url |-> ProviderUrl(prov, ThumbPath(storagePath), "image/webp"),
                    width |-> IF u.file.thumbProbe.width # 0 THEN u.file.thumbProbe.width ELSE 200,
                    height |-> IF u.file.thumbProbe.height # 0 THEN u.file.thumbProbe.height ELSE 200]
              ELSE [url |-> <<>>, width |-> 0, height |-> 0],
          type |-> UploadType(u),
          metadata |->
              [originalName |-> u.file.originalname,
               mimeType |-> u.file.mimetype,
               size |-> BufferLength(u),
               dimensions |-> IF width # 0 /\ height # 0
                              THEN [width |-> width, height |-> height]
                              ELSE NoDimensions,
               format |-> IF ext = <<>> THEN <<>> ELSE Tail(ext)],
          entityType |-> u.options.entityType,
          entityId |-> u.options.entityId,
          fieldName |-> u.options.fieldName,
          uploadedBy |-> u.options.uploadedBy,
          storageProvider |-> prov,
          storagePath |-> storagePath,
          isProcessed |-> isImage,
          isActive |-> TRUE,
          createdAt |-> t,
          updatedAt |-> t ]

\* A call returns (or throws): the slot is free again and the outcome is the last one seen
Return(p, outcome) ==
    /\ pc' = [pc EXCEPT ![p] = "idle"]
    /\ op' = [op EXCEPT ![p] = Idle]
    /\ last' = outcome

\* The call goes on to its next await
Goto(p, label) ==
    /\ pc' = [pc EXCEPT ![p] = label]
    /\ last' = NoCall
    /\ UNCHANGED op

\* The call suspends at its first await, with its locals
Call(p, label, locals) ==
    /\ pc' = [pc EXCEPT ![p] = label]
    /\ op' = [op EXCEPT ![p] = locals]
    /\ last' = NoCall

Log(u, field, value) == [history EXCEPT ![u.seq][field] = value]

UploadFailure(u, status) ==
    [op |-> u.name, seq |-> u.seq, status |-> status, file |-> u.file,
     files |-> u.files, done |-> u.done, first |-> u.first]

\* The call throws: the error reaches the caller, nothing is undone
UploadThrows(p, status) ==
    /\ Return(p, UploadFailure(op[p], status))
    /\ history' = Log(op[p], "outcome", "failed")

\* the loop of uploadMultipleMedia takes the files last to first
NextFile_Reversed(files, index) == files[Len(files) + 1 - index]

\* lines 153-156: for (const file of files) takes the files in the caller's order
NextFile(files, index) == files[index]

\* lines 59-78 for files[index]: validateFile, getMediaTypeFromMime, the generated
\* name; up to the first await. name is the service method the caller invoked,
\* done the documents it has collected so far, first the names issued before the
\* call, hist the history to extend.
UploadEnter(p, name, files, index, done, first, options, hist) ==
    LET file == NextFile(files, index)
        validation == validateFile(file)
        thrown == [op |-> name, seq |-> 0, file |-> file,
                   files |-> files, done |-> done, first |-> first]
    IN  IF ~validation.valid
        THEN /\ Return(p, thrown @@ [status |-> "BadRequest", error |-> validation.error])
             /\ nextSeq' = nextSeq
             /\ history' = hist
        ELSE IF getMediaTypeFromMime(file.mimetype) = NoType
        THEN /\ Return(p, thrown @@ [status |-> "Error", error |-> "Unsupported MIME type"])
             /\ nextSeq' = nextSeq
             /\ history' = hist
        ELSE /\ nextSeq' = nextSeq + 1
             /\ Call(p, IF getMediaTypeFromMime(file.mimetype) = "image"
                         THEN "up_process" ELSE "up_primary",
                     [name |-> name, file |-> file, options |-> options, seq |-> nextSeq + 1,
                      files |-> files, index |-> index, done |-> done, first |-> first])
             /\ history' = Put(hist, nextSeq + 1, [thumb |-> FALSE, primary |-> FALSE,
                                                   outcome |-> "running"])

\* uploadMedia(file, options), while fewer than limit names have been issued
UploadStartUpTo(p, file, options, limit) ==
    /\ pc[p] = "idle"
    /\ validateFile(file).valid => nextSeq < limit
    /\ UploadEnter(p, "upload", <<file>>, 1, <<>>, nextSeq, options, history)
    /\ UNCHANGED <<provider, records, objects, now>>

UploadStart(p, file, options) == UploadStartUpTo(p, file, options, MaxUploads)

\* lines 82-92: processImage, getImageMetadata, createThumbnail; sharp throws on bytes it cannot decode
UploadProcess(p) ==
    /\ pc[p] = "up_process"
    /\ \E ok \in BOOLEAN :
        IF ok
        THEN Goto(p, "up_thumb") /\ UNCHANGED history
        ELSE UploadThrows(p, "DecodeFailed")
    /\ UNCHANGED <<provider, records, objects, now, nextSeq>>

\* The thumbnail is generated but never uploaded
UploadThumb_Skipped(p) ==
    /\ pc[p] = "up_thumb"
    /\ \E ok \in BOOLEAN :
        IF ok
        THEN /\ Goto(p, "up_thumbmeta")
             /\ UNCHANGED <<objects, history>>
        ELSE /\ UploadThrows(p, "StorageFailed")
             /\ UNCHANGED objects
    /\ UNCHANGED <<provider, records, now, nextSeq>>

\* lines 93-98: storageProvider.upload(thumbBuffer, thumbPath, "image/webp")
UploadThumb(p) ==
    /\ pc[p] = "up_thumb"
    /\ \E ok \in BOOLEAN :
        IF ok
        THEN /\ objects' = ProviderUpload(provider, objects, ThumbBuffer(op[p].file.buffer),
                                          ThumbPath(UploadStoragePath(op[p])), "image/webp")
             /\ history' = Log(op[p], "thumb", TRUE)
             /\ Goto(p, "up_thumbmeta")
        ELSE /\ UploadThrows(p, "StorageFailed")
             /\ UNCHANGED objects
    /\ UNCHANGED <<provider, records, now, nextSeq>>

\* lines 101-108: getImageMetadata(thumbBuffer)
UploadThumbMeta(p) ==
    /\ pc[p] = "up_thumbmeta"
    /\ \E ok \in BOOLEAN :
        IF ok
        THEN Goto(p, "up_primary") /\ UNCHANGED history
        ELSE UploadThrows(p, "DecodeFailed")
    /\ UNCHANGED <<provider, records, objects, now, nextSeq>>

\* The storage error is swallowed and the upload goes on to create the record
UploadPrimary_Swallow(p) ==
    /\ pc[p] = "up_primary"
    /\ \E ok \in BOOLEAN :
        IF ok
        THEN /\ objects' = ProviderUpload(provider, objects, UploadBuffer(op[p]),
                                          UploadStoragePath(op[p]), op[p].file.mimetype)
             /\ history' = Log(op[p], "primary", TRUE)
             /\ Goto(p, "up_create")
        ELSE /\ Goto(p, "up_create")
             /\ UNCHANGED <<objects, history>>
    /\ UNCHANGED <<provider, records, now, nextSeq>>

\* lines 112-116: storageProvider.upload(uploadBuffer, storagePath, file.mimetype)
UploadPrimary(p) ==
    /\ pc[p] = "up_primary"
    /\ \E ok \in BOOLEAN :
        IF ok
        THEN /\ objects' = ProviderUpload(provider, objects, UploadBuffer(op[p]),
                                          UploadStoragePath(op[p]), op[p].file.mimetype)
             /\ history' = Log(op[p], "primary", TRUE)
             /\ Goto(p, "up_create")
        ELSE /\ UploadThrows(p, "StorageFailed")
             /\ UNCHANGED objects
    /\ UNCHANGED <<provider, records, now, nextSeq>>

\* The document is inserted although the call then throws
UploadCreate_Partial(p) ==
    /\ pc[p] = "up_create"
    /\ records' = Put(records, op[p].seq, NewDoc(op[p], provider, now))
    /\ \E ok \in BOOLEAN :
        IF ok
        THEN /\ history' = Log(op[p], "outcome", "ok")
             /\ Return(p, [op |-> "upload", seq |-> op[p].seq, status |-> "ok",
                           file |-> op[p].file, value |-> NewDoc(op[p], provider, now)])
        ELSE UploadThrows(p, "StoreFailed")
    /\ UNCHANGED <<provider, objects, now, nextSeq>>

\* What follows a successful Media.create: uploadMedia returns the document; in
\* uploadMultipleMedia (lines 153-158) the loop pushes it and enters uploadMedia
\* for the next file, or returns the collected documents after the last one
UploadReturns(p, doc) ==
    LET u == op[p]
        logged == Log(u, "outcome", "ok")
        done == Append(u.done, doc)
    IN  IF u.name = "upload"
        THEN /\ Return(p, [op |-> "upload", seq |-> u.seq, status |-> "ok",
                           file |-> u.file, value |-> doc])
             /\ history' = logged
             /\ nextSeq' = nextSeq
        ELSE IF u.index = Len(u.files)
        THEN /\ Return(p, [op |-> "uploadMany", seq |-> u.seq, status |-> "ok",
                           file |-> u.file, files |-> u.files, first |-> u.first,
                           value |-> done])
             /\ history' = logged
             /\ nextSeq' = nextSeq
        ELSE UploadEnter(p, "uploadMany", u.files, u.index + 1, done, u.first, u.options, logged)

\* lines 128-144: Media.create(...) and the return of the persisted document.
\* Media.create validates the document against the schema before the insert and
\* throws a ValidationError when a required path is missing.
UploadCreate(p) ==
    /\ pc[p] = "up_create"
    /\ IF ~SchemaValid(NewDoc(op[p], provider, now))
       THEN /\ UploadThrows(p, "ValidationFailed")
            /\ UNCHANGED <<records, nextSeq>>
       ELSE \E ok \in BOOLEAN :
            IF ok
            THEN /\ records' = Put(records, op[p].seq, NewDoc(op[p], provider, now))
                 /\ UploadReturns(p, NewDoc(op[p], provider, now))
            ELSE /\ UploadThrows(p, "StoreFailed")
                 /\ UNCHANGED <<records, nextSeq>>
    /\ UNCHANGED <<provider, objects, now>>

\* lines 147-159: uploadMultipleMedia(files, options), up to the first await
UploadManyStart(p, files, options) ==
    /\ pc[p] = "idle"
    /\ nextSeq + Len(files) <= MaxBatch
    /\ UploadEnter(p, "uploadMany", files, 1, <<>>, nextSeq, options, history)
    /\ UNCHANGED <<provider, records, objects, now>>

-----------------------------------------------------------------------------
(* Queries: getMediaById, getMedia, getMediaByEntity, getSignedUrl *)

\* MediaQueryOptions offered to getMedia; "" / <<>> is an absent (falsy) field
Queries ==
    { [entityType |-> "", entityId |-> <<>>, fieldName |-> <<>>, uploadedBy |-> "",
       type |-> "", isActive |-> TRUE, page |-> 1, limit |-> 20],
      [entityType |-> "user", entityId |-> <<>>, fieldName |-> <<>>, uploadedBy |-> "",
       type |-> "image", isActive |-> TRUE, page |-> 1, limit |-> 1] }

\* lines 187-192: the conditions the query adds to the filter besides isActive
MatchesFilter(doc, q) ==
    /\ q.entityType # "" => doc.entityType = q.entityType
    /\ q.entityId # <<>> => doc.entityId = q.entityId
    /\ q.fieldName # <<>> => doc.fieldName = q.fieldName
    /\ q.uploadedBy # "" => doc.uploadedBy = q.uploadedBy
    /\ q.type # "" => doc.type = q.type

\* The documents Media.find(filter) returns: the find hook's where({ isActive: true })
\* is merged over the filter's own isActive condition
FindFilter(recs, q) ==
    {recs[id] : id \in {i \in DOMAIN recs : PreFind(recs[i]) /\ MatchesFilter(recs[i], q)}}

\* Media.countDocuments(filter): no hook, the filter's isActive stands
CountFilter(recs, q) ==
    Cardinality({i \in DOMAIN recs : recs[i].isActive = q.isActive /\ MatchesFilter(recs[i], q)})

\* sort({ createdAt: -1 }): every order of docs with createdAt descending
SortedNewestFirst(docs) ==
    LET n == Cardinality(docs)
    IN  { s \in [1 .. n -> docs] :
            /\ \A i, j \in 1 .. n : i # j => s[i] # s[j]
            /\ \A i \in 1 .. n : \A j \in 1 .. n : i < j => s[i].createdAt >= s[j].createdAt }

\* skip(skip).limit(limit)
SkipLimit(s, skip, limit) ==
    [i \in 1 .. (IF Len(s) - skip < 0 THEN 0
                 ELSE IF Len(s) - skip < limit THEN Len(s) - skip ELSE limit) |-> s[skip + i]]

Ceil(a, b) == (a + b - 1) \div b

\* lines 161-167
GetMediaById(p, id) ==
    /\ pc[p] = "idle"
    /\ IF FindByIdHits(records, id)
       THEN Return(p, [op |-> "get", id |-> id, status |-> "ok", value |-> records[id]])
       ELSE Return(p, [op |-> "get", id |-> id, status |-> "NotFound"])
    /\ UNCHANGED <<provider, records, objects, now, nextSeq, history>>

\* lines 169-208
GetMedia(p, q) ==
    /\ pc[p] = "idle"
    /\ \E sorted \in SortedNewestFirst(FindFilter(records, q)) :
        Return(p, [op |-> "list", query |-> q, status |-> "ok",
                   data |-> SkipLimit(sorted, (q.page - 1) * q.limit, q.limit),
                   total |-> CountFilter(records, q),
                   totalPages |-> Ceil(CountFilter(records, q), q.limit)])
    /\ UNCHANGED <<provider, records, objects, now, nextSeq, history>>

\* lines 210-224; fieldName <<>> is the absent argument
GetMediaByEntity(p, entityType, entityId, fieldName) ==
    /\ pc[p] = "idle"
    /\ LET q == [entityType |-> entityType, entityId |-> entityId, fieldName |-> fieldName,
                 uploadedBy |-> "", type |-> "", isActive |-> TRUE]
       IN  \E sorted \in SortedNewestFirst(FindFilter(records, q)) :
             Return(p, [op |-> "listByPlacement", query |-> q, status |-> "ok", data |-> sorted])
    /\ UNCHANGED <<provider, records, objects, now, nextSeq, history>>

\* provider.getSignedUrl(key, expiresIn): S3 presigns the key with the signing time
\* and the lifetime, Cloudinary signs expires_at, the local provider returns the plain url
ProviderSignedUrl(prov, key, expiresIn, t) ==
    CASE prov = "s3" -> [url |-> <<"s3", "://">> \o key, signed |-> <<t, expiresIn>>]
      [] prov = "cloudinary" -> [url |-> <<"cloudinary", "://">> \o key, signed |-> <<t + expiresIn>>]
      [] OTHER -> [url |-> <<"local", "://">> \o key, signed |-> <<>>]

\* The expiresIn argument is <<>> when the caller leaves it out, <<n>> otherwise
TtlArgs == {<<>>, <<60>>}

\* line 306: expiresIn: number = 3600
ExpiresIn(arg) == IF arg = <<>> THEN 3600 ELSE arg[1]

\* The provider ignores the clock and signs the lifetime alone
GetSignedUrl_Timeless(p, id, expiresIn) ==
    /\ pc[p] = "idle"
    /\ IF FindByIdHits(records, id)
       THEN Return(p, [op |-> "signedUrl", id |-> id, expiresIn |-> expiresIn, status |-> "ok",
                       value |-> ProviderSignedUrl(provider, records[id].storagePath,
                                                   ExpiresIn(expiresIn), 0)])
       ELSE Return(p, [op |-> "signedUrl", id |-> id, expiresIn |-> expiresIn,
                       status |-> "NotFound"])
    /\ UNCHANGED <<provider, records, objects, now, nextSeq, history>>

\* lines 306-313
GetSignedUrl(p, id, expiresIn) ==
    /\ pc[p] = "idle"
    /\ IF FindByIdHits(records, id)
       THEN Return(p, [op |-> "signedUrl", id |-> id, expiresIn |-> expiresIn, status |-> "ok",
                       value |-> ProviderSignedUrl(provider, records[id].storagePath,
                                                   ExpiresIn(expiresIn), now)])
       ELSE Return(p, [op |-> "signedUrl", id |-> id, expiresIn |-> expiresIn,
                       status |-> "NotFound"])
    /\ UNCHANGED <<provider, records, objects, now, nextSeq, history>>

-----------------------------------------------------------------------------
(* updateMedia and deleteMedia *)

\* UpdateMediaOptions offered to updateMedia
Patches ==
    { [isActive |-> TRUE], [isActive |-> FALSE], [isProcessed |-> FALSE],
      [isActive |-> TRUE, isProcessed |-> TRUE] }

\* The update goes through the lookup that hides soft-deleted documents
UpdateMedia_ActiveOnly(p, id, data) ==
    /\ pc[p] = "idle"
    /\ IF FindByIdHits(records, id)
       THEN /\ records' = UpdateIn(records, {id}, data, now)
            /\ Return(p, [op |-> "update", id |-> id, data |-> data, status |-> "ok",
                          value |-> Stamp(records[id], data, now)])
       ELSE /\ Return(p, [op |-> "update", id |-> id, data |-> data, status |-> "NotFound"])
            /\ UNCHANGED records
    /\ UNCHANGED <<provider, objects, now, nextSeq, history>>

\* lines 226-238: one store call, Media.findByIdAndUpdate, which no find hook covers
UpdateMedia(p, id, data) ==
    /\ pc[p] = "idle"
    /\ IF id \in DOMAIN records
       THEN /\ records' = UpdateIn(records, {id}, data, now)
            /\ Return(p, [op |-> "update", id |-> id, data |-> data, status |-> "ok",
                          value |-> Stamp(records[id], data, now)])
       ELSE /\ Return(p, [op |-> "update", id |-> id, data |-> data, status |-> "NotFound"])
            /\ UNCHANGED records
    /\ UNCHANGED <<provider, objects, now, nextSeq, history>>

\* lines 241-244: Media.findById(id)
DeleteMediaFind(p, id) ==
    /\ pc[p] = "idle"
    /\ IF FindByIdHits(records, id)
       THEN Call(p, "sd_write", [name |-> "softDelete", id |-> id])
       ELSE Return(p, [op |-> "softDelete", id |-> id, status |-> "NotFound"])
    /\ UNCHANGED <<provider, records, objects, now, nextSeq, history>>

\* The soft delete removes the document instead of flagging it
DeleteMediaWrite_Removes(p) ==
    /\ pc[p] = "sd_write"
    /\ \E ok \in BOOLEAN :
        IF ok
        THEN /\ records' = DeleteIn(records, {op[p].id})
             /\ Return(p, [op |-> "softDelete", id |-> op[p].id, status |-> "ok"])
        ELSE /\ Return(p, [op |-> "softDelete", id |-> op[p].id, status |-> "StoreFailed"])
             /\ UNCHANGED records
    /\ UNCHANGED <<provider, objects, now, nextSeq, history>>

\* The soft delete also removes the primary object
DeleteMediaWrite_Purge(p) ==
    /\ pc[p] = "sd_write"
    /\ \E ok \in BOOLEAN :
        IF ok
        THEN /\ records' = UpdateIn(records, {op[p].id}, [isActive |-> FALSE], now)
             /\ objects' = [k \in DOMAIN objects \
                               {UploadKey(provider, records[op[p].id].storagePath,
                                          records[op[p].id].metadata.mimeType)} |-> objects[k]]
             /\ Return(p, [op |-> "softDelete", id |-> op[p].id, status |-> "ok"])
        ELSE /\ Return(p, [op |-> "softDelete", id |-> op[p].id, status |-> "StoreFailed"])
             /\ UNCHANGED <<records, objects>>
    /\ UNCHANGED <<provider, now, nextSeq, history>>

\* line 247: Media.findByIdAndUpdate(id, { isActive: false })
DeleteMediaWrite(p) ==
    /\ pc[p] = "sd_write"
    /\ \E ok \in BOOLEAN :
        IF ok
        THEN /\ records' = UpdateIn(records, {op[p].id}, [isActive |-> FALSE], now)
             /\ Return(p, [op |-> "softDelete", id |-> op[p].id, status |-> "ok"])
        ELSE /\ Return(p, [op |-> "softDelete", id |-> op[p].id, status |-> "StoreFailed"])
             /\ UNCHANGED records
    /\ UNCHANGED <<provider, objects, now, nextSeq, history>>

-----------------------------------------------------------------------------
(* deleteMediaPermanently *)

\* line 251: Media.findById(id).setOptions({ strictQuery: false }); a query option
\* does not switch the findOne hook off
DeletePermanentlyFind(p, id) ==
    /\ pc[p] = "idle"
    /\ IF FindByIdHits(records, id)
       THEN Call(p, "hd_primary", [name |-> "hardDelete", id |-> id, media |-> records[id]])
       ELSE Return(p, [op |-> "hardDelete", id |-> id, status |-> "NotFound"])
    /\ UNCHANGED <<provider, records, objects, now, nextSeq, history>>

HardDeleteOutcome(o, status) ==
    [op |-> "hardDelete", id |-> o.id, status |-> status, media |-> o.media]

\* line 257: storageProvider.delete(media.storagePath)
DeletePermanentlyPrimary(p) ==
    /\ pc[p] = "hd_primary"
    /\ \E ok \in BOOLEAN :
        IF ok
        THEN /\ objects' = ProviderDelete(provider, objects, op[p].media.storagePath)
             /\ Goto(p, IF op[p].media.thumbnail.url # <<>> THEN "hd_thumb" ELSE "hd_record")
        ELSE /\ Return(p, HardDeleteOutcome(op[p], "StorageFailed"))
             /\ UNCHANGED objects
    /\ UNCHANGED <<provider, records, now, nextSeq, history>>

\* lines 258-261: storageProvider.delete(thumbPath)
DeletePermanentlyThumb(p) ==
    /\ pc[p] = "hd_thumb"
    /\ \E ok \in BOOLEAN :
        IF ok
        THEN /\ objects' = ProviderDelete(provider, objects, ThumbPath(op[p].media.storagePath))
             /\ Goto(p, "hd_record")
        ELSE /\ Return(p, HardDeleteOutcome(op[p], "StorageFailed"))
             /\ UNCHANGED objects
    /\ UNCHANGED <<provider, records, now, nextSeq, history>>

\* line 264: Media.findByIdAndDelete(id)
DeletePermanentlyRecord(p) ==
    /\ pc[p] = "hd_record"
    /\ \E ok \in BOOLEAN :
        IF ok
        THEN /\ records' = DeleteIn(records, {op[p].id})
             /\ Return(p, HardDeleteOutcome(op[p], "ok"))
        ELSE /\ Return(p, HardDeleteOutcome(op[p], "StoreFailed"))
             /\ UNCHANGED records
    /\ UNCHANGED <<provider, objects, now, nextSeq, history>>

-----------------------------------------------------------------------------
(* bulkDelete and bulkDeletePermanently *)

\* The id lists offered to the bulk calls: every list of at most two ids
BulkIdLists ==
    {<<>>} \cup {<<a>> : a \in QueryIds} \cup {<<a, b>> : a \in QueryIds, b \in QueryIds}

FailedIds_Unordered(ids, foundIds) ==
    LET missing == SelectSeq(ids, LAMBDA id : id \notin foundIds)
    IN  [i \in 1 .. Len(missing) |-> missing[Len(missing) + 1 - i]]

\* ids.filter((id) => !foundIds.includes(id))
FailedIds(ids, foundIds) == SelectSeq(ids, LAMBDA id : id \notin foundIds)

RECURSIVE PathsOf(_, _, _)
\* media.map((m) => m.storagePath), the documents in the store's (insertion) order
PathsOf(recs, foundIds, n) ==
    IF n = 0 THEN <<>>
    ELSE PathsOf(recs, foundIds, n - 1)
            \o (IF n \in foundIds THEN <<recs[n].storagePath>> ELSE <<>>)

\* lines 270-272 and 279-282
BulkDeleteFind(p, ids) ==
    /\ pc[p] = "idle"
    /\ LET foundIds == FindIdsIn(records, ids)
           failedIds == FailedIds(ids, foundIds)
       IN  IF foundIds # {}
           THEN Call(p, "bs_write", [name |-> "bulkSoftDelete", ids |-> ids,
                                     foundIds |-> foundIds, failedIds |-> failedIds])
           ELSE Return(p, [op |-> "bulkSoftDelete", ids |-> ids, status |-> "ok",
                           foundIds |-> foundIds, deleted |-> Cardinality(foundIds),
                           failed |-> failedIds])
    /\ UNCHANGED <<provider, records, objects, now, nextSeq, history>>

\* lines 274-282: Media.updateMany({ _id: { $in: foundIds } }, { isActive: false })
BulkDeleteWrite(p) ==
    /\ pc[p] = "bs_write"
    /\ \E ok \in BOOLEAN :
        IF ok
        THEN /\ records' = UpdateIn(records, op[p].foundIds, [isActive |-> FALSE], now)
             /\ Return(p, [op |-> "bulkSoftDelete", ids |-> op[p].ids, status |-> "ok",
                           foundIds |-> op[p].foundIds,
                           deleted |-> Cardinality(op[p].foundIds),
                           failed |-> op[p].failedIds])
        ELSE /\ Return(p, [op |-> "bulkSoftDelete", ids |-> op[p].ids, status |-> "StoreFailed"])
             /\ UNCHANGED records
    /\ UNCHANGED <<provider, objects, now, nextSeq, history>>

BulkHardOutcome(o, status) ==
    [op |-> "bulkHardDelete", ids |-> o.ids, status |-> status, media |-> o.media,
     foundIds |-> o.foundIds, deleted |-> Cardinality(o.foundIds), failed |-> o.failedIds]

\* lines 288-293 and 300-303
BulkDeletePermanentlyFind(p, ids) ==
    /\ pc[p] = "idle"
    /\ LET foundIds == FindIdsIn(records, ids)
           o == [name |-> "bulkHardDelete", ids |-> ids, foundIds |-> foundIds,
                 failedIds |-> FailedIds(ids, foundIds),
                 media |-> [id \in foundIds |-> records[id]],
                 paths |-> PathsOf(records, foundIds, nextSeq)]
       IN  IF Len(o.paths) > 0
           THEN Call(p, "bh_objects", o)
           ELSE Return(p, BulkHardOutcome(o, "ok"))
    /\ UNCHANGED <<provider, records, objects, now, nextSeq, history>>

\* The records are removed before the batch delete is known to have succeeded
BulkDeletePermanentlyObjects_RecordsFirst(p) ==
    /\ pc[p] = "bh_objects"
    /\ \E ok \in BOOLEAN :
        IF ok
        THEN /\ objects' = ProviderDeleteMany(provider, objects, op[p].paths)
             /\ Goto(p, "bh_records")
             /\ UNCHANGED records
        ELSE /\ objects' = objects
             /\ records' = DeleteIn(records, op[p].foundIds)
             /\ Return(p, BulkHardOutcome(op[p], "StorageFailed"))
    /\ UNCHANGED <<provider, now, nextSeq, history>>

\* line 296: storageProvider.deleteMany(paths); a failing batch may have deleted some
BulkDeletePermanentlyObjects(p) ==
    /\ pc[p] = "bh_objects"
    /\ \E ok \in BOOLEAN :
        IF ok
        THEN /\ objects' = ProviderDeleteMany(provider, objects, op[p].paths)
             /\ Goto(p, "bh_records")
        ELSE /\ \E n \in 0 .. Len(op[p].paths) - 1 :
                    objects' = ProviderDeleteMany(provider, objects, SubSeq(op[p].paths, 1, n))
             /\ Return(p, BulkHardOutcome(op[p], "StorageFailed"))
    /\ UNCHANGED <<provider, records, now, nextSeq, history>>

\* line 297: Media.deleteMany({ _id: { $in: foundIds } })
BulkDeletePermanentlyRecords(p) ==
    /\ pc[p] = "bh_records"
    /\ \E ok \in BOOLEAN :
        IF ok
        THEN /\ records' = DeleteIn(records, op[p].foundIds)
             /\ Return(p, BulkHardOutcome(op[p], "ok"))
        ELSE /\ Return(p, BulkHardOutcome(op[p], "StoreFailed"))
             /\ UNCHANGED records
    /\ UNCHANGED <<provider, objects, now, nextSeq, history>>

-----------------------------------------------------------------------------
(* The system *)

\* Time passes
Tick ==
    /\ now < MaxClock
    /\ now' = now + 1
    /\ last' = NoCall
    /\ UNCHANGED <<provider, records, objects, nextSeq, pc, op, history>>

Init ==
    /\ provider \in Providers
    /\ records = <<>>
    /\ objects = <<>>
    /\ now = 0
    /\ nextSeq = 0
    /\ pc = [p \in Procs |-> "idle"]
    /\ op = [p \in Procs |-> Idle]
    /\ last = NoCall
    /\ history = <<>>

\* The files, owners and id lists the callers of Spec send
SpecFiles == Files

SpecPlacements == {o \in Placements : o.entityType = "user"}

SpecIdLists == {<<>>, <<1>>, <<0, 1>>}

SpecPatches == {[isActive |-> TRUE], [isActive |-> FALSE]}

Next ==
    \/ \E p \in Writers, file \in SpecFiles, options \in SpecPlacements :
         UploadStart(p, file, options)
    \/ \E p \in Procs : UploadProcess(p)
    \/ \E p \in Procs : UploadThumb(p)
    \/ \E p \in Procs : UploadThumbMeta(p)
    \/ \E p \in Procs : UploadPrimary(p)
    \/ \E p \in Procs : UploadCreate(p)
    \/ \E p \in Procs, id \in QueryIds : GetMediaById(p, id)
    \/ \E p \in Procs, q \in Queries : GetMedia(p, q)
    \/ \E p \in Procs, pl \in SpecPlacements, withField \in BOOLEAN :
         GetMediaByEntity(p, pl.entityType, pl.entityId, IF withField THEN pl.fieldName ELSE <<>>)
    \/ \E p \in Procs, id \in QueryIds : GetSignedUrl(p, id, <<>>)
    \/ \E p \in Writers, id \in QueryIds, data \in SpecPatches : UpdateMedia(p, id, data)
    \/ \E p \in Writers, id \in QueryIds : DeleteMediaFind(p, id)
    \/ \E p \in Procs : DeleteMediaWrite(p)
    \/ \E p \in Writers, id \in QueryIds : DeletePermanentlyFind(p, id)
    \/ \E p \in Procs : DeletePermanentlyPrimary(p)
    \/ \E p \in Procs : DeletePermanentlyThumb(p)
    \/ \E p \in Procs : DeletePermanentlyRecord(p)
    \/ \E p \in Writers, ids \in SpecIdLists : BulkDeleteFind(p, ids)
    \/ \E p \in Procs : BulkDeleteWrite(p)
    \/ \E p \in Writers, ids \in SpecIdLists : BulkDeletePermanentlyFind(p, ids)
    \/ \E p \in Procs : BulkDeletePermanentlyObjects(p)
    \/ \E p \in Procs : BulkDeletePermanentlyRecords(p)

Spec == Init /\ [][Next]_vars

-----------------------------------------------------------------------------
(* The delete and update calls over a store that already holds SeedCount uploads *)

SoftIds == 0 .. SeedCount

SoftIdLists ==
    {<<>>} \cup {<<a>> : a \in SoftIds} \cup {<<a, b>> : a \in SoftIds, b \in SoftIds}

\* The uploads that filled the store: images named with and without an extension, in turn
SeedUpload(i) ==
    [name |-> "upload",
     file |-> CHOOSE f \in Files : f.buffer = (IF i % 2 = 1 THEN <<"b1">> ELSE <<"b2">>),
     options |-> CHOOSE o \in SpecPlacements : TRUE,
     seq |-> i]

RECURSIVE SeedObjects(_, _)
\* What lines 93-98 and 112-116 of those uploads left in the backend
SeedObjects(prov, n) ==
    IF n = 0 THEN <<>>
    ELSE LET u == SeedUpload(n)
             before == SeedObjects(prov, n - 1)
             withThumb == IF UploadType(u) = "image"
                          THEN ProviderUpload(prov, before, ThumbBuffer(u.file.buffer),
                                              ThumbPath(UploadStoragePath(u)), "image/webp")
                          ELSE before
         IN  ProviderUpload(prov, withThumb, UploadBuffer(u),
                            UploadStoragePath(u), u.file.mimetype)

InitSeeded ==
    /\ provider \in Providers
    /\ records = [i \in 1 .. SeedCount |-> NewDoc(SeedUpload(i), provider, 0)]
    /\ objects = SeedObjects(provider, SeedCount)
    /\ now = 0
    /\ nextSeq = SeedCount
    /\ pc = [p \in Procs |-> "idle"]
    /\ op = [p \in Procs |-> Idle]
    /\ last = NoCall
    /\ history = [i \in 1 .. SeedCount |->
                    [thumb |-> UploadType(SeedUpload(i)) = "image", primary |-> TRUE,
                     outcome |-> "ok"]]

NextSeeded ==
    \/ Tick
    \/ \E p \in Procs, id \in SoftIds : GetMediaById(p, id)
    \/ \E p \in Writers, id \in SoftIds : UpdateMedia(p, id, [isActive |-> TRUE])
    \/ \E p \in Writers, id \in SoftIds : DeleteMediaFind(p, id)
    \/ \E p \in Procs : DeleteMediaWrite(p)
    \/ \E p \in Writers, ids \in SoftIdLists : BulkDeleteFind(p, ids)
    \/ \E p \in Procs : BulkDeleteWrite(p)

SpecSeeded == InitSeeded /\ [][NextSeeded]_vars

-----------------------------------------------------------------------------
(* getMedia over a store that holds SeedCount uploads made at various times *)

\* MediaQueryOptions as queryMediaSchema lets them through: page >= 1, limit >= 1
ListQueries ==
    { [entityType |-> e, entityId |-> <<>>, fieldName |-> <<>>, uploadedBy |-> "",
       type |-> "", isActive |-> a, page |-> pg, limit |-> lm] :
         e \in {"", "property"}, a \in BOOLEAN, pg \in 1 .. SeedCount + 1, lm \in {1, 20} }

InitListed ==
    /\ provider \in Providers
    /\ \E created \in [1 .. SeedCount -> 0 .. MaxClock] :
         /\ \A i, j \in 1 .. SeedCount : i < j => created[i] <= created[j]
         /\ records = [i \in 1 .. SeedCount |-> NewDoc(SeedUpload(i), provider, created[i])]
    /\ objects = SeedObjects(provider, SeedCount)
    /\ now = MaxClock
    /\ nextSeq = SeedCount
    /\ pc = [p \in Procs |-> "idle"]
    /\ op = [p \in Procs |-> Idle]
    /\ last = NoCall
    /\ history = [i \in 1 .. SeedCount |->
                    [thumb |-> TRUE, primary |-> TRUE, outcome |-> "ok"]]

NextListed ==
    \/ \E p \in Writers, id \in SoftIds, data \in SpecPatches : UpdateMedia(p, id, data)
    \/ \E p \in Procs, q \in ListQueries : GetMedia(p, q)

SpecListed == InitListed /\ [][NextListed]_vars

-----------------------------------------------------------------------------
(* updateMedia, getMediaById and getSignedUrl over a filled store, as time passes *)

NextPatched ==
    \/ Tick
    \/ \E p \in Writers, id \in SoftIds, data \in Patches : UpdateMedia(p, id, data)
    \/ \E p \in Procs, id \in SoftIds : GetMediaById(p, id)
    \/ \E p \in Procs, id \in SoftIds, expiresIn \in TtlArgs : GetSignedUrl(p, id, expiresIn)

SpecPatched == InitSeeded /\ [][NextPatched]_vars

-----------------------------------------------------------------------------
(* uploadMultipleMedia *)

\* The files of a batch: an image, a document and a file of a type not allowed
BatchFiles == {f \in Files : f.buffer \in {<<"b1">>, <<"b3">>, <<"b5">>}}

Batches ==
    UNION {[1 .. n -> BatchFiles] : n \in 1 .. MaxBatch}

NextMany ==
    \/ \E p \in Writers, files \in Batches, options \in SpecPlacements :
         UploadManyStart(p, files, options)
    \/ \E p \in Procs : UploadProcess(p)
    \/ \E p \in Procs : UploadThumb(p)
    \/ \E p \in Procs : UploadThumbMeta(p)
    \/ \E p \in Procs : UploadPrimary(p)
    \/ \E p \in Procs : UploadCreate(p)
    \/ \E p \in Procs, id \in 0 .. MaxBatch : GetMediaById(p, id)

SpecMany == Init /\ [][NextMany]_vars

-----------------------------------------------------------------------------
(* Uploads of several callers at once *)

\* Images named with and without an extension
RaceFiles == {f \in Files : f.buffer \in {<<"b1">>, <<"b2">>}}

NextRace ==
    \/ \E p \in Procs, file \in RaceFiles, options \in Placements :
         UploadStartUpTo(p, file, options, MaxRacers)
    \/ \E p \in Procs : UploadProcess(p)
    \/ \E p \in Procs : UploadThumb(p)
    \/ \E p \in Procs : UploadThumbMeta(p)
    \/ \E p \in Procs : UploadPrimary(p)
    \/ \E p \in Procs : UploadCreate(p)

SpecRace == Init /\ [][NextRace]_vars

-----------------------------------------------------------------------------
(* The StorageProvider interface called directly: upload, delete, deleteMany, *)
(* exists. Here history is, per key, what the last upload to that key that    *)
(* no later delete of the key followed was given.                             *)

BackendKeys == {<<"a", "/", "x", ".", "jpg">>, <<"a", "/", "x">>}

BackendBuffers == {<<"b1">>, <<"b2">>}

BackendMimeTypes == {"image/jpeg", "video/mp4"}

BackendKeyLists == {<<>>} \cup {<<k>> : k \in BackendKeys}

\* The key of the { url, key } that provider.upload returns: Cloudinary returns
\* result.public_id, S3 and the local provider the key they were given
ProviderUploadedKey(prov, key) == IF prov = "cloudinary" THEN PublicId(key) ELSE key

\* provider.exists(key): HeadObject on the key, fs.access of the file, or
\* api.resource(key), which looks the public id up among the image resources
ProviderExists(prov, objs, key) ==
    IF prov = "cloudinary"
    THEN <<"image", ":">> \o key \in DOMAIN objs
    ELSE key \in DOMAIN objs

\* provider.delete(key) fails when no object is stored under the key
DeleteResult_Strict(prov, objs, key, fault) ==
    IF fault THEN "StorageFailed"
    ELSE IF DeleteKey(prov, key) \in DOMAIN objs THEN "ok" ELSE "NotFound"

\* How provider.delete(key) ends: S3 DeleteObject and Cloudinary destroy answer a
\* missing key like a stored one, the local provider ignores ENOENT of unlink;
\* any other fault of the backend is thrown
DeleteResult(prov, objs, key, fault) ==
    IF fault THEN "StorageFailed" ELSE "ok"

BackendUpload(p, buffer, key, mimeType) ==
    /\ pc[p] = "idle"
    /\ \E fault \in BOOLEAN :
         IF ~fault
         THEN /\ objects' = ProviderUpload(provider, objects, buffer, key, mimeType)
              /\ history' = Put(history, key, [buffer |-> buffer, mimeType |-> mimeType])
              /\ Return(p, [op |-> "provider.upload", status |-> "ok", key |-> key,
                            buffer |-> buffer, mimeType |-> mimeType,
                            value |-> [url |-> ProviderUrl(provider, key, mimeType),
                                       key |-> ProviderUploadedKey(provider, key)]])
         ELSE /\ Return(p, [op |-> "provider.upload", status |-> "StorageFailed", key |-> key,
                            buffer |-> buffer, mimeType |-> mimeType])
              /\ UNCHANGED <<objects, history>>
    /\ UNCHANGED <<provider, records, now, nextSeq>>

BackendDelete(p, key) ==
    /\ pc[p] = "idle"
    /\ \E fault \in BOOLEAN :
         LET status == DeleteResult(provider, objects, key, fault)
         IN  /\ Return(p, [op |-> "provider.delete", status |-> status, key |-> key,
                           fault |-> fault])
             /\ IF status = "ok"
                THEN /\ objects' = ProviderDelete(provider, objects, key)
                     /\ history' = Remove(history, {key})
                ELSE UNCHANGED <<objects, history>>
    /\ UNCHANGED <<provider, records, now, nextSeq>>

\* S3 and Cloudinary return before any request when keys is empty; the local
\* provider awaits Promise.all of no delete
BackendDeleteMany(p, keys) ==
    /\ pc[p] = "idle"
    /\ \E fault \in BOOLEAN :
         IF keys = <<>> \/ ~fault
         THEN /\ objects' = ProviderDeleteMany(provider, objects, keys)
              /\ history' = Remove(history, {keys[i] : i \in 1 .. Len(keys)})
              /\ Return(p, [op |-> "provider.deleteMany", status |-> "ok", keys |-> keys])
         ELSE /\ Return(p, [op |-> "provider.deleteMany", status |-> "StorageFailed",
                            keys |-> keys])
              /\ UNCHANGED <<objects, history>>
    /\ UNCHANGED <<provider, records, now, nextSeq>>

\* exists answers false when the request fails, whatever the reason
BackendExists(p, key) ==
    /\ pc[p] = "idle"
    /\ \E answered \in BOOLEAN :
         Return(p, [op |-> "provider.exists", status |-> "ok", key |-> key,
                    answered |-> answered,
                    value |-> answered /\ ProviderExists(provider, objects, key)])
    /\ UNCHANGED <<provider, records, objects, now, nextSeq, history>>

NextBackend ==
    \/ \E p \in Writers, buffer \in BackendBuffers, key \in BackendKeys,
          mimeType \in BackendMimeTypes : BackendUpload(p, buffer, key, mimeType)
    \/ \E p \in Writers, key \in BackendKeys : BackendDelete(p, key)
    \/ \E p \in Writers, keys \in BackendKeyLists : BackendDeleteMany(p, keys)
    \/ \E p \in Procs, key \in BackendKeys : BackendExists(p, key)

SpecBackend == Init /\ [][NextBackend]_vars

-----------------------------------------------------------------------------
(* Executions in which no request to the backend or to the store fails *)

\* The step just taken did not end a call with a failure of the backend or the store
Faultless == last = NoCall \/ last.status \notin {"StorageFailed", "StoreFailed"}

NextFaultless ==
    \/ \E p \in Writers, file \in SpecFiles, options \in SpecPlacements :
         UploadStart(p, file, options) /\ Faultless'
    \/ \E p \in Procs : UploadProcess(p) /\ Faultless'
    \/ \E p \in Procs : UploadThumb(p) /\ Faultless'
    \/ \E p \in Procs : UploadThumbMeta(p) /\ Faultless'
    \/ \E p \in Procs : UploadPrimary(p) /\ Faultless'
    \/ \E p \in Procs : UploadCreate(p) /\ Faultless'
    \/ \E p \in Procs, id \in QueryIds : GetMediaById(p, id) /\ Faultless'
    \/ \E p \in Writers, id \in QueryIds : DeleteMediaFind(p, id) /\ Faultless'
    \/ \E p \in Procs : DeleteMediaWrite(p) /\ Faultless'
    \/ \E p \in Writers, id \in QueryIds : DeletePermanentlyFind(p, id) /\ Faultless'
    \/ \E p \in Procs : DeletePermanentlyPrimary(p) /\ Faultless'
    \/ \E p \in Procs : DeletePermanentlyThumb(p) /\ Faultless'
    \/ \E p \in Procs : DeletePermanentlyRecord(p) /\ Faultless'
    \/ \E p \in Writers, ids \in SpecIdLists : BulkDeletePermanentlyFind(p, ids) /\ Faultless'
    \/ \E p \in Procs : BulkDeletePermanentlyObjects(p) /\ Faultless'
    \/ \E p \in Procs : BulkDeletePermanentlyRecords(p) /\ Faultless'

SpecFaultless == Init /\ [][NextFaultless]_vars

-----------------------------------------------------------------------------
(* Uploads one after the other, with soft and hard deletes in between *)

NamedIds == 1 .. MaxRacers

NextNamed ==
    \/ \E p \in Writers, file \in RaceFiles, options \in SpecPlacements :
         UploadStartUpTo(p, file, options, MaxRacers)
    \/ \E p \in Procs : UploadProcess(p)
    \/ \E p \in Procs : UploadThumb(p)
    \/ \E p \in Procs : UploadThumbMeta(p)
    \/ \E p \in Procs : UploadPrimary(p)
    \/ \E p \in Procs : UploadCreate(p)
    \/ \E p \in Writers, id \in NamedIds : DeleteMediaFind(p, id)
    \/ \E p \in Procs : DeleteMediaWrite(p)
    \/ \E p \in Writers, id \in NamedIds : DeletePermanentlyFind(p, id)
    \/ \E p \in Procs : DeletePermanentlyPrimary(p)
    \/ \E p \in Procs : DeletePermanentlyThumb(p)
    \/ \E p \in Procs : DeletePermanentlyRecord(p)

SpecNamed == Init /\ [][NextNamed]_vars

-----------------------------------------------------------------------------
(* The service under every value of the storage setting *)

InitConfigured ==
    /\ provider \in StorageSettings
    /\ records = <<>>
    /\ objects = <<>>
    /\ now = 0
    /\ nextSeq = 0
    /\ pc = [p \in Procs |-> "idle"]
    /\ op = [p \in Procs |-> Idle]
    /\ last = NoCall
    /\ history = <<>>

\* An image and a document
ConfiguredFiles == {f \in Files : f.buffer \in {<<"b1">>, <<"b3">>}}

NextConfigured ==
    \/ Tick
    \/ \E p \in Writers, file \in ConfiguredFiles, options \in SpecPlacements :
         UploadStart(p, file, options)
    \/ \E p \in Procs : UploadProcess(p)
    \/ \E p \in Procs : UploadThumb(p)
    \/ \E p \in Procs : UploadThumbMeta(p)
    \/ \E p \in Procs : UploadPrimary(p)
    \/ \E p \in Procs : UploadCreate(p)
    \/ \E p \in Procs, id \in QueryIds : GetMediaById(p, id)
    \/ \E p \in Writers, id \in QueryIds, data \in Patches : UpdateMedia(p, id, data)
    \/ \E p \in Writers, id \in QueryIds : DeleteMediaFind(p, id)
    \/ \E p \in Procs : DeleteMediaWrite(p)
    \/ \E p \in Writers, ids \in SpecIdLists : BulkDeleteFind(p, ids)
    \/ \E p \in Procs : BulkDeleteWrite(p)

SpecConfigured == InitConfigured /\ [][NextConfigured]_vars

-----------------------------------------------------------------------------
(* Soft deletes and updates of one caller against hard deletes of another, *)
(* over a store that already holds SeedCount uploads                        *)

Removers == Procs \ Writers

ContendedIdLists == {<<a>> : a \in 1 .. SeedCount} \cup {<<1, 2>>}

NextContended ==
    \/ \E p \in Writers, id \in 1 .. SeedCount : DeleteMediaFind(p, id)
    \/ \E p \in Procs : DeleteMediaWrite(p)
    \/ \E p \in Writers, ids \in ContendedIdLists : BulkDeleteFind(p, ids)
    \/ \E p \in Procs : BulkDeleteWrite(p)
    \/ \E p \in Writers, id \in 1 .. SeedCount, data \in SpecPatches : UpdateMedia(p, id, data)
    \/ \E p \in Removers, id \in 1 .. SeedCount : DeletePermanentlyFind(p, id)
    \/ \E p \in Procs : DeletePermanentlyPrimary(p)
    \/ \E p \in Procs : DeletePermanentlyThumb(p)
    \/ \E p \in Procs : DeletePermanentlyRecord(p)
    \/ \E p \in Removers, ids \in ContendedIdLists : BulkDeletePermanentlyFind(p, ids)
    \/ \E p \in Procs : BulkDeletePermanentlyObjects(p)
    \/ \E p \in Procs : BulkDeletePermanentlyRecords(p)

SpecContended == InitSeeded /\ [][NextContended]_vars

-----------------------------------------------------------------------------
(* Properties *)

UploadLabels == {"up_process", "up_thumb", "up_thumbmeta", "up_primary", "up_create"}

\* C1: a record exists only when every backend write of the upload that creates
\* it has completed: the primary write, and for an image the thumbnail write too.
\* It holds in every state, whatever a concurrent reader does between the steps.
C1_RecordAfterWrites ==
    \A id \in DOMAIN records :
        /\ history[id].primary
        /\ records[id].type = "image" => history[id].thumb

\* An image record that a reader has just been given
C1_ReaderSeesImage ==
    /\ last.op = "get" /\ last.status = "ok"
    /\ last.value.type = "image"
    /\ UploadKey(provider, last.value.storagePath, last.value.metadata.mimeType) \in DOMAIN objects

\* C4: get and signedUrl fail NotFound exactly when the id has no record or names
\* a soft-deleted one, and what get, the default list and listByPlacement return
\* is active.
C4_ReadsSeeOnlyActive ==
    /\ last.op \in {"get", "signedUrl"} =>
          /\ last.status = "NotFound" <=>
                (last.id \notin DOMAIN records \/ ~records[last.id].isActive)
          /\ last.status \in {"ok", "NotFound"}
    /\ (last.op = "get" /\ last.status = "ok") =>
          /\ last.value = records[last.id]
          /\ last.value.isActive
    /\ (last.op = "list" /\ last.query.isActive) =>
          \A i \in 1 .. Len(last.data) : last.data[i].isActive
    /\ last.op = "listByPlacement" =>
          \A i \in 1 .. Len(last.data) : last.data[i].isActive

\* A get of a soft-deleted record has just failed NotFound
C4_SoftDeletedHidden ==
    /\ last.op = "get" /\ last.status = "NotFound"
    /\ last.id \in DOMAIN records
    /\ ~records[last.id].isActive

UploadFailedStep(p) ==
    /\ pc[p] \in UploadLabels
    /\ pc'[p] = "idle"
    /\ last'.status # "ok"

\* C5: a step of upload that fails after validation throws to the caller, leaves
\* every record and every backend object as it was (objects the upload has written
\* stay, nothing is deleted), and no record ever exists for a failed upload.
C5_FailedUploadLeavesNoRecord ==
    /\ [](\A seq \in DOMAIN history :
            history[seq].outcome = "failed" => seq \notin DOMAIN records)
    /\ [][\A p \in Procs : UploadFailedStep(p) =>
            /\ last'.op = "upload" /\ last'.seq = op[p].seq
            /\ last'.status \in {"DecodeFailed", "StorageFailed", "StoreFailed", "ValidationFailed"}
            /\ history'[op[p].seq].outcome = "failed"
            /\ records' = records
            /\ objects' = objects]_vars

\* The primary upload has just failed after the thumbnail was written: the
\* thumbnail object is still there and there is no record
C5_OrphanedThumbnail ==
    /\ last.op = "upload" /\ last.status = "StorageFailed"
    /\ history[last.seq].thumb
    /\ objects # <<>>
    /\ last.seq \notin DOMAIN records

InAllowLists(mimeType) ==
    \E list \in {allowedImageTypes, allowedVideoTypes, allowedDocumentTypes} :
        \E i \in 1 .. Len(list) : list[i] = mimeType

\* C6: upload rejects a file exactly when its content type is in none of the
\* allow-lists or its size is above the maximum, the type being judged first;
\* the rejecting step writes nothing.
C6_ValidationRejects ==
    /\ [](\A p \in Procs : pc[p] \in UploadLabels =>
            InAllowLists(op[p].file.mimetype) /\ op[p].file.size <= maxFileSize)
    /\ [][(last'.op = "upload" /\ last'.status = "BadRequest") =>
            /\ ~InAllowLists(last'.file.mimetype) \/ last'.file.size > maxFileSize
            /\ last'.error = IF ~InAllowLists(last'.file.mimetype)
                             THEN "File type is not allowed"
                             ELSE "File size exceeds maximum allowed size"
            /\ UNCHANGED <<records, objects, nextSeq, history>>]_vars

\* A file of an unknown type that is also too large has just been rejected for its type
C6_TypeJudgedFirst ==
    /\ last.op = "upload" /\ last.status = "BadRequest"
    /\ last.file.mimetype = "application/x-unknown"
    /\ last.file.size > maxFileSize
    /\ last.error = "File type is not allowed"
    /\ records = <<>> /\ objects = <<>>

\* Some resource of the backend answers to the key: on Cloudinary under any
\* resource type, on S3 and on disk under the key itself
HoldsKey(prov, objs, key) ==
    IF prov = "cloudinary"
    THEN \E rtype \in {"image", "video", "raw"} : <<rtype, ":">> \o key \in DOMAIN objs
    ELSE key \in DOMAIN objs

\* C2: in every reachable state, whichever the backend, every record that exists
\* has an object stored under exactly the key in its storagePath.
C2_RecordHasObject ==
    \A id \in DOMAIN records : HoldsKey(provider, objects, records[id].storagePath)

\* C3: hardDelete fails NotFound only on an id that has no record, soft-deleted
\* records included, and bulkHardDelete reports in failed only ids that have no record.
C3_HardDeleteReachesSoftDeleted ==
    /\ (last.op = "hardDelete" /\ last.status = "NotFound") =>
          last.id \notin DOMAIN records
    /\ (last.op = "bulkHardDelete" /\ last.status = "ok") =>
          \A i \in 1 .. Len(last.failed) : last.failed[i] \notin DOMAIN records

\* The keys under which upload stored the objects of a record
PrimaryKeyOf(doc) == UploadKey(provider, doc.storagePath, doc.metadata.mimeType)

ThumbKeyOf(doc) == UploadKey(provider, ThumbPath(doc.storagePath), "image/webp")

ObjectsGone(doc) ==
    /\ PrimaryKeyOf(doc) \notin DOMAIN objects
    /\ doc.type = "image" => ThumbKeyOf(doc) \notin DOMAIN objects

\* C7: when hardDelete has succeeded neither the record nor any object of it is
\* left in the backend; when a backend delete has failed the record is still
\* there; on an id with no record the call fails NotFound.
C7_HardDeleteLeavesNothing ==
    last.op = "hardDelete" =>
        /\ last.status = "ok" => (last.id \notin DOMAIN records /\ ObjectsGone(last.media))
        /\ last.status = "StorageFailed" => last.id \in DOMAIN records
        /\ last.id \notin DOMAIN records => last.status \in {"ok", "NotFound"}

\* C8: when bulkHardDelete has succeeded on a backend whose delete takes the very
\* key upload stored under (S3, local disk), every record it found is gone and so
\* are the primary object and, for an image, the thumbnail object of each.
C8_BulkHardDeleteLeavesNothing ==
    (last.op = "bulkHardDelete" /\ last.status = "ok" /\ provider \in {"s3", "local"}) =>
        \A id \in last.foundIds :
            /\ id \notin DOMAIN records
            /\ ObjectsGone(last.media[id])

SoftDeleteReturns(p) == pc[p] = "sd_write" /\ pc'[p] = "idle"

\* C9: a successful softDelete sets isActive to false on the record and changes
\* no other field of it, no other record and no backend object; on an id with no
\* record it fails NotFound.
C9_SoftDeleteChangesOnlyIsActive ==
    [][/\ \A p \in Procs : (SoftDeleteReturns(p) /\ last'.status = "ok") =>
             /\ records' = [records EXCEPT ![op[p].id].isActive = FALSE]
             /\ objects' = objects
       /\ (last'.op = "softDelete" /\ last'.id \notin DOMAIN records) =>
             (last'.status = "NotFound" /\ UNCHANGED <<records, objects>>)]_vars

\* C9 as the code has it: a successful softDelete sets isActive to false and
\* updatedAt to the time of the write on the record, and changes no other field
\* of it, no other record and no backend object; on an id with no record, or
\* with a soft-deleted one, it fails NotFound and changes nothing.
C9_SoftDeleteChangesIsActiveAndUpdatedAt ==
    [][/\ \A p \in Procs : (SoftDeleteReturns(p) /\ last'.status = "ok") =>
             /\ records' = [records EXCEPT ![op[p].id].isActive = FALSE,
                                           ![op[p].id].updatedAt = now]
             /\ objects' = objects
       /\ (last'.op = "softDelete" /\ last'.status # "ok") =>
             UNCHANGED <<records, objects>>
       /\ (last'.op = "softDelete" /\ last'.status = "NotFound") <=>
             \E p \in Procs, id \in SoftIds :
                /\ pc[p] = "idle" /\ pc'[p] = "idle" /\ last'.op = "softDelete" /\ last'.id = id
                /\ (id \notin DOMAIN records \/ ~records[id].isActive)]_vars

\* A softDelete has just succeeded after time had passed since the upload, with
\* another record in the store
C9_SoftDeletedLater ==
    /\ last.op = "softDelete" /\ last.status = "ok"
    /\ ~records[last.id].isActive
    /\ records[last.id].updatedAt > records[last.id].createdAt
    /\ \E other \in DOMAIN records : other # last.id /\ records[other].isActive

BulkSoftDeleteReturns(p) ==
    /\ pc[p] \in {"idle", "bs_write"}
    /\ pc'[p] = "idle"
    /\ last'.op = "bulkSoftDelete" /\ last'.status = "ok"

\* What C10 says of a bulkSoftDelete that returns, the ids in `hit` being the
\* ones it counts and updates
BulkSoftDeleteResult(hit) ==
    /\ last'.deleted = Cardinality(hit)
    /\ last'.failed = SelectSeq(last'.ids, LAMBDA id : id \notin hit)
    /\ \A id \in hit : ~records'[id].isActive
    /\ \A id \in DOMAIN records \ hit : records'[id] = records[id]
    /\ DOMAIN records' = DOMAIN records
    /\ objects' = objects

\* C10: bulkSoftDelete returns deleted = the number of listed ids that have a
\* record and failed = the listed ids that have none, in input order; the
\* records of the former end inactive, every other record and every backend
\* object is unchanged.
C10_BulkSoftDeleteCountsKnown ==
    [][\A p \in Procs : BulkSoftDeleteReturns(p) =>
          BulkSoftDeleteResult({id \in DOMAIN records : Includes(last'.ids, id)})]_vars

\* C10 as the code has it: deleted = the number of distinct listed ids that name
\* an active record and failed = the listed ids that name none (unknown and
\* already soft-deleted alike), in input order; the active records listed end
\* inactive, every other record and every backend object is unchanged.
C10_BulkSoftDeleteCountsActive ==
    [][\A p \in Procs : BulkSoftDeleteReturns(p) =>
          BulkSoftDeleteResult({id \in DOMAIN records :
                                  Includes(last'.ids, id) /\ records[id].isActive})]_vars

\* A bulkSoftDelete of an unknown id and an active record has just returned
C10_HalfUnknown ==
    /\ last.op = "bulkSoftDelete" /\ last.status = "ok"
    /\ last.deleted = 1
    /\ Len(last.failed) = 1 /\ last.failed[1] \notin DOMAIN records
    /\ \E id \in DOMAIN records : Includes(last.ids, id) /\ ~records[id].isActive

\* C14: an upload of a video or a document that passed validation and whose
\* backend upload succeeded returns a persisted record with isProcessed false and
\* the thumbnail {"", 0, 0}, the original buffer being stored unchanged under
\* storagePath (the store being available).
C14_NonImageUploadPersists ==
    (/\ last.op = "upload" /\ last.seq # 0
     /\ getMediaTypeFromMime(last.file.mimetype) \in {"video", "document"}
     /\ history[last.seq].primary
     /\ last.status # "StoreFailed") =>
        /\ last.status = "ok"
        /\ last.seq \in DOMAIN records
        /\ records[last.seq] = last.value
        /\ ~last.value.isProcessed
        /\ last.value.thumbnail = [url |-> <<>>, width |-> 0, height |-> 0]
        /\ PrimaryKeyOf(last.value) \in DOMAIN objects
        /\ objects[PrimaryKeyOf(last.value)] = last.file.buffer

BulkOps == {"bulkSoftDelete", "bulkHardDelete"}

\* C11: when the batch delete of bulkHardDelete fails the call raises that error
\* and no record is removed; a bulk call raises only from a backend or store call,
\* which it makes only when it found a record; when it found none it returns
\* deleted = 0 with every id in failed, having deleted and written nothing.
C11_BulkRaisesOnlyOnBackendFailure ==
    /\ [](last.op \in BulkOps => last.status \in {"ok", "StorageFailed", "StoreFailed"})
    /\ [][/\ \A p \in Procs : (pc[p] = "bh_objects" /\ pc'[p] = "idle") =>
                /\ last'.op = "bulkHardDelete" /\ last'.status = "StorageFailed"
                /\ records' = records
          /\ \A p \in Procs : (pc[p] = "idle" /\ pc'[p] \in {"bs_write", "bh_objects"}) =>
                FindIdsIn(records, op'[p].ids) # {}
          /\ (pc' = pc /\ last'.op \in BulkOps) =>
                /\ FindIdsIn(records, last'.ids) = {}
                /\ last'.status = "ok"
                /\ last'.deleted = 0
                /\ last'.failed = last'.ids
                /\ UNCHANGED <<records, objects>>]_vars

\* The batch delete of a bulkHardDelete has just failed and the records it found
\* are all still there
C11_BatchDeleteFailed ==
    /\ last.op = "bulkHardDelete" /\ last.status = "StorageFailed"
    /\ last.foundIds # {}
    /\ \A id \in last.foundIds : id \in DOMAIN records

\* The records a query selects: those with the isActive it asks for that match
\* its other fields
Selected(q) ==
    {records[id] : id \in {i \in DOMAIN records :
                             records[i].isActive = q.isActive /\ MatchesFilter(records[i], q)}}

PageLength(total, skip, limit) ==
    IF total - skip <= 0 THEN 0 ELSE IF total - skip < limit THEN total - skip ELSE limit

\* C12: list called with isActive = false returns in data only soft-deleted
\* records that match the other filter fields, and total is the number of those
\* records, so that data and total describe the same set.
C12_ListOfSoftDeleted ==
    (last.op = "list" /\ ~last.query.isActive) =>
        /\ \A i \in 1 .. Len(last.data) : last.data[i] \in Selected(last.query)
        /\ last.total = Cardinality(Selected(last.query))
        /\ Len(last.data) =
              PageLength(last.total, (last.query.page - 1) * last.query.limit, last.query.limit)

\* C13: list returns the selected records newest-created first, skipping
\* (page-1)*limit and returning at most limit; total counts the selected records,
\* totalPages = ceil(total/limit) and data.length = min(limit, max(0, total - skip)).
C13_ListPagination ==
    last.op = "list" =>
        LET q == last.query
            skip == (q.page - 1) * q.limit
        IN  /\ last.total = Cardinality(Selected(q))
            /\ last.totalPages * q.limit >= last.total
            /\ (last.totalPages - 1) * q.limit < last.total \/ last.total = 0
            /\ last.total = 0 => last.totalPages = 0
            /\ Len(last.data) = PageLength(last.total, skip, q.limit)
            /\ \E sorted \in SortedNewestFirst(Selected(q)) :
                  last.data = SkipLimit(sorted, skip, q.limit)

\* A document with the fields of a patch set and, where the store stamps the
\* write, updatedAt set to that time
Patched(doc, data, stamp) ==
    [f \in DOMAIN doc |->
        IF f \in DOMAIN data THEN data[f]
        ELSE IF f = "updatedAt" /\ stamp # <<>> THEN stamp[1]
        ELSE doc[f]]

UpdateEffect(stamp) ==
    last'.op = "update" =>
        IF last'.id \in DOMAIN records
        THEN /\ last'.status = "ok"
             /\ records' = [records EXCEPT
                              ![last'.id] = Patched(records[last'.id], last'.data, stamp)]
             /\ last'.value = records'[last'.id]
             /\ objects' = objects
        ELSE /\ last'.status = "NotFound"
             /\ UNCHANGED <<records, objects>>

GetFollowsIsActive ==
    last.op = "get" =>
        (last.status = "ok" <=> (last.id \in DOMAIN records /\ records[last.id].isActive))

\* C18: update sets exactly the fields of the patch on the record with that id,
\* active or soft-deleted, and changes no other field of it, no other record and
\* no backend object; it fails NotFound, changing nothing, only when no record
\* has the id; get succeeds on a record exactly when isActive is true on it.
C18_UpdateSetsOnlyPatch ==
    []GetFollowsIsActive /\ [][UpdateEffect(<<>>)]_vars

\* C18 as the code has it: update sets the fields of the patch and the
\* store-managed updatedAt (to the time of the write) on the record with that
\* id, active or soft-deleted, and changes nothing else; it fails NotFound,
\* changing nothing, only when no record has the id; get succeeds on a record
\* exactly when isActive is true on it.
C18_UpdateSetsPatchAndUpdatedAt ==
    []GetFollowsIsActive /\ [][UpdateEffect(<<now>>)]_vars

\* An update of isProcessed alone has just gone through on a soft-deleted record,
\* some time after it was created
C18_PatchedWhileSoftDeleted ==
    /\ last.op = "update" /\ last.status = "ok"
    /\ DOMAIN last.data = {"isProcessed"}
    /\ ~records[last.id].isActive
    /\ records[last.id].isProcessed = last.data.isProcessed
    /\ records[last.id].updatedAt > records[last.id].createdAt

\* C20: signedUrl returns what the backend signs for the record's storagePath
\* and the lifetime asked for (3600 when left out), changes no state, and fails
\* NotFound exactly when the lookup resolves no record; on local disk the url is
\* the same for every lifetime and time, on S3, which presigns with the signing
\* time and the lifetime, it differs from that of any call whose expiry time differs.
C20_SignedUrlDelegates ==
    /\ [][last'.op = "signedUrl" =>
            /\ UNCHANGED <<records, objects, provider>>
            /\ last'.status = "NotFound" <=> ~FindByIdHits(records, last'.id)
            /\ last'.status \in {"ok", "NotFound"}
            /\ last'.status = "ok" =>
                  /\ last'.value.url = <<provider, "://">> \o records[last'.id].storagePath
                  /\ last'.expiresIn = <<>> =>
                        last'.value = ProviderSignedUrl(provider, records[last'.id].storagePath,
                                                        3600, now)]_vars
    /\ []((last.op = "signedUrl" /\ last.status = "ok") =>
            \A arg \in TtlArgs, t \in 0 .. MaxClock :
               LET other == ProviderSignedUrl(provider, records[last.id].storagePath,
                                              ExpiresIn(arg), t)
               IN  /\ provider = "local" => other = last.value
                   /\ (provider = "s3"
                         /\ t + ExpiresIn(arg) # now + ExpiresIn(last.expiresIn)) =>
                         other # last.value)

\* A signedUrl call without a lifetime has just returned on S3, after time has passed
C20_SignedWithDefaultTtl ==
    /\ last.op = "signedUrl" /\ last.status = "ok"
    /\ last.expiresIn = <<>>
    /\ provider = "s3"
    /\ now > 0

ReadOps == {"get", "list", "listByPlacement", "signedUrl"}

\* C17: a record comes into existence only by a successful upload, once, and
\* with isActive true; it ceases to exist only by a successful hardDelete or
\* bulkHardDelete; its isActive changes only by softDelete, bulkSoftDelete or
\* update; and a read changes no record and no backend object.
C17_Lifecycle ==
    [][/\ \A id \in (DOMAIN records') \ (DOMAIN records) :
             /\ last'.op = "upload" /\ last'.status = "ok" /\ last'.seq = id
             /\ history[id].outcome = "running"
             /\ records'[id].isActive
       /\ \A id \in (DOMAIN records) \ (DOMAIN records') :
             /\ last'.op \in {"hardDelete", "bulkHardDelete"} /\ last'.status = "ok"
             /\ IF last'.op = "hardDelete" THEN last'.id = id ELSE id \in last'.foundIds
       /\ \A id \in (DOMAIN records) \cap (DOMAIN records') :
             records'[id].isActive # records[id].isActive =>
                 /\ last'.op \in {"softDelete", "bulkSoftDelete", "update"}
                 /\ last'.status = "ok"
       /\ last'.op \in ReadOps => UNCHANGED <<records, objects>>]_vars

\* A record that an upload created has just been removed by hardDelete
C17_CreatedThenRemoved ==
    /\ last.op = "hardDelete" /\ last.status = "ok"
    /\ history[last.id].outcome = "ok"
    /\ last.id \notin DOMAIN records

\* C15: a successful upload of a valid image returns the persisted record, with
\* type image, isProcessed true, a non-empty thumbnail.url and dimensions of
\* positive width and height; the upload has written a thumbnail object and a
\* primary object, and the primary key holds the processed image.
C15_ImageUploadResult ==
    (/\ last.op = "upload" /\ last.status = "ok"
     /\ getMediaTypeFromMime(last.file.mimetype) = "image") =>
        /\ records[last.seq] = last.value
        /\ last.value.type = "image"
        /\ last.value.isProcessed
        /\ last.value.thumbnail.url # <<>>
        /\ last.value.metadata.dimensions.width > 0
        /\ last.value.metadata.dimensions.height > 0
        /\ history[last.seq].thumb /\ history[last.seq].primary
        /\ PrimaryKeyOf(last.value) \in DOMAIN objects
        /\ objects[PrimaryKeyOf(last.value)] = ProcessedBuffer(last.file.buffer)

\* An upload of a JPEG has just succeeded and the backend holds its two objects
C15_ImageStored ==
    /\ last.op = "upload" /\ last.status = "ok"
    /\ last.file.mimetype = "image/jpeg"
    /\ last.value.isProcessed
    /\ ThumbKeyOf(last.value) # PrimaryKeyOf(last.value)
    /\ {ThumbKeyOf(last.value), PrimaryKeyOf(last.value)} \subseteq DOMAIN objects

\* C16: uploadMany takes the files one at a time in caller order. When it
\* succeeds it returns one record per file, in caller order, each persisted.
\* When file k fails it fails with that file's error, the failing step writes
\* nothing, the records of the files before k are in place, and nothing has been
\* validated, named, written or recorded for a file after k.
C16_UploadManySequential ==
    [][last'.op = "uploadMany" =>
         LET r == last'
         IN  IF r.status = "ok"
             THEN /\ Len(r.value) = Len(r.files)
                  /\ \A i \in 1 .. Len(r.files) :
                        /\ r.value[i].metadata.originalName = r.files[i].originalname
                        /\ r.value[i].id = r.first + i
                        /\ records'[r.value[i].id] = r.value[i]
                  /\ nextSeq' = r.first + Len(r.files)
             ELSE LET k == Len(r.done) + 1
                  IN  /\ k <= Len(r.files)
                      /\ r.file = r.files[k]
                      /\ r.status = "BadRequest" => r.error = validateFile(r.files[k]).error
                      /\ \A i \in 1 .. k - 1 :
                            /\ r.done[i].id = r.first + i
                            /\ r.done[i].metadata.originalName = r.files[i].originalname
                            /\ records'[r.done[i].id] = r.done[i]
                      /\ objects' = objects
                      /\ nextSeq' = r.first + (IF r.seq = 0 THEN k - 1 ELSE k)
                      /\ DOMAIN history' = 1 .. nextSeq'
                      /\ \A id \in DOMAIN records' : id < r.first + k]_vars

\* The second file of a batch has just failed and the record of the first is in place
C16_SecondFileFailed ==
    /\ last.op = "uploadMany" /\ last.status # "ok"
    /\ Len(last.done) = 1
    /\ last.done[1].id \in DOMAIN records
    /\ Len(last.files) = 2

KeysOf(doc) == {PrimaryKeyOf(doc), ThumbKeyOf(doc)}

\* C19: however the steps of concurrent uploads interleave, the records of two
\* uploads differ in storagePath and in thumbnail key, no object of one is stored
\* under a key of the other, every record's objects are in the backend, and the
\* store holds exactly one record per successful upload.
C19_UploadsDoNotCollide ==
    /\ \A a, b \in DOMAIN records : a # b =>
          /\ records[a].storagePath # records[b].storagePath
          /\ ThumbPath(records[a].storagePath) # ThumbPath(records[b].storagePath)
          /\ KeysOf(records[a]) \cap KeysOf(records[b]) = {}
    /\ \A a \in DOMAIN records : KeysOf(records[a]) \subseteq DOMAIN objects
    /\ DOMAIN records = {seq \in DOMAIN history : history[seq].outcome = "ok"}

\* C21: on every backend, an upload to a key that already holds an upload adds
\* no object and leaves the second buffer, after an upload exists(key) is true,
\* delete(key) removes the object the upload to that key stored, exists(key) is
\* false after it, and exists answers true exactly for the keys that hold an upload.
C21_KeyRoundTrips ==
    [][ /\ (last'.op = "provider.upload" /\ last'.status = "ok") =>
             /\ ProviderExists(provider, objects', last'.key)
             /\ objects'[UploadKey(provider, last'.key, last'.mimeType)] = last'.buffer
             /\ (last'.key \in DOMAIN history =>
                   Cardinality(DOMAIN objects') = Cardinality(DOMAIN objects))
        /\ (last'.op = "provider.delete" /\ last'.status = "ok") =>
             /\ (last'.key \in DOMAIN history =>
                   UploadKey(provider, last'.key, history[last'.key].mimeType)
                       \notin DOMAIN objects')
             /\ ~ProviderExists(provider, objects', last'.key)
        /\ (last'.op = "provider.exists" /\ last'.answered) =>
             last'.value = (last'.key \in DOMAIN history)]_vars

\* C22: on every backend, delete(key) throws only on a fault of the backend, never
\* because the key holds no object; when the key holds none it changes nothing,
\* a second delete(key) after a first changes nothing, and deleteMany of no key
\* completes and changes nothing.
C22_DeleteIsIdempotent ==
    [][ /\ (last'.op = "provider.delete" /\ ~last'.fault) =>
             /\ last'.status = "ok"
             /\ (DeleteKey(provider, last'.key) \notin DOMAIN objects => objects' = objects)
             /\ ProviderDelete(provider, objects', last'.key) = objects'
        /\ (last'.op = "provider.deleteMany" /\ last'.keys = <<>>) =>
             /\ last'.status = "ok"
             /\ objects' = objects]_vars

\* delete of a key that holds nothing has completed while another key holds an object
C22_DeletedMissingKey ==
    /\ last.op = "provider.delete" /\ last.status = "ok"
    /\ DeleteKey(provider, last.key) \notin DOMAIN objects
    /\ objects # <<>>

\* The backend keys of the objects of a record: its primary object and, when it
\* has a thumbnail, the thumbnail object
ObjectKeysOf(doc) ==
    {PrimaryKeyOf(doc)} \cup (IF doc.thumbnail.url # <<>> THEN {ThumbKeyOf(doc)} ELSE {})

\* C23: when no request to the backend or the store has failed and no call is
\* under way, the objects of the backend are exactly the primary and thumbnail
\* objects of the records that exist, active or soft-deleted.
C23_ObjectsMatchRecords ==
    (\A p \in Procs : pc[p] = "idle") =>
        DOMAIN objects = UNION {ObjectKeysOf(records[id]) : id \in DOMAIN records}

\* The entityType/entityId/fieldName/ prefix generateStoragePath gives the keys of a record
PlacementPrefix(doc) ==
    <<doc.entityType, "/">> \o doc.entityId \o <<"/">> \o doc.fieldName \o <<"/">>

IsUnder(key, prefix) ==
    Len(key) > Len(prefix) /\ SubSeq(key, 1, Len(prefix)) = prefix

\* C24: for every image record, whatever the file name and the placement, the
\* thumbnail key derived from storagePath differs from storagePath and lies under
\* the record's entityType/entityId/fieldName prefix, the backend keeps primary
\* and thumbnail under different keys, and the object under the thumbnail key
\* that hardDelete recomputes is the thumbnail the upload wrote.
C24_ThumbKeyApart ==
    \A id \in DOMAIN records :
        LET doc == records[id]
            thumbPath == ThumbPath(doc.storagePath)
        IN  doc.type = "image" =>
              /\ thumbPath # doc.storagePath
              /\ IsUnder(thumbPath, PlacementPrefix(doc))
              /\ ThumbKeyOf(doc) # PrimaryKeyOf(doc)
              /\ ThumbKeyOf(doc) \in DOMAIN objects
              /\ Head(objects[ThumbKeyOf(doc)]) = "thumb75"

\* Some record, active or soft-deleted, carries the timestamp-uuid token
Carries(tok) == \E id \in DOMAIN records : Head(records[id].fileName) = tok

\* The upload that generateFileName issued the token to has ended
Ended(tok) ==
    \E seq \in DOMAIN history : UniqueToks[seq] = tok /\ history[seq].outcome # "running"

\* C25: every record's storagePath is entityType/entityId/fieldName/fileName, no
\* two records, active or soft-deleted, share a fileName or a storagePath, and
\* once the upload a name was generated for has ended and no record carries the
\* name (it failed, or its record was hard-deleted), no record carries it again.
C25_NamesNeverReused ==
    /\ [](\A a \in DOMAIN records :
            /\ records[a].storagePath =
                  generateStoragePath(records[a].entityType, records[a].entityId,
                                      records[a].fieldName, records[a].fileName)
            /\ \A b \in DOMAIN records : a # b =>
                  /\ records[a].fileName # records[b].fileName
                  /\ records[a].storagePath # records[b].storagePath)
    /\ \A i \in 1 .. Len(UniqueToks) :
          []((Ended(UniqueToks[i]) /\ ~Carries(UniqueToks[i])) => [](~Carries(UniqueToks[i])))

\* The first upload's record has been hard-deleted and a later upload of the
\* same file to the same placement has its record
C25_SecondAfterHardDelete ==
    /\ 1 \in DOMAIN history /\ history[1].outcome = "ok" /\ 1 \notin DOMAIN records
    /\ 2 \in DOMAIN records
    /\ last.op = "upload" /\ last.status = "ok" /\ last.seq = 2

\* C26: under every value of the storage setting, every record's storageProvider
\* is the backend variant the process selected at start, the record's primary
\* object is in the backend under that variant's key when the record is
\* created, and no step changes the setting or a record's storageProvider.
C26_StorageProviderFixed ==
    /\ [](\A id \in DOMAIN records :
            records[id].storageProvider = createStorageProvider(provider))
    /\ [][/\ provider' = provider
          /\ \A id \in DOMAIN records' :
                IF id \in DOMAIN records
                THEN records'[id].storageProvider = records[id].storageProvider
                ELSE UploadKey(records'[id].storageProvider, records'[id].storagePath,
                               records'[id].metadata.mimeType) \in DOMAIN objects']_vars

\* An update has just patched a record, whose storageProvider is still the selected backend
C26_UpdatedRecordKeepsProvider ==
    /\ last.op = "update" /\ last.status = "ok"
    /\ last.id \in DOMAIN records
    /\ records[last.id].updatedAt > records[last.id].createdAt
    /\ records[last.id].storageProvider = createStorageProvider(provider)

\* C27: in every state every record with a non-empty thumbnail.url is of type
\* image and every record of type video or document has the thumbnail
\* {"", 0, 0}, and no step changes the type or the thumbnail of a record that exists.
C27_ThumbnailOnlyOnImages ==
    /\ [](\A id \in DOMAIN records :
            /\ records[id].thumbnail.url # <<>> => records[id].type = "image"
            /\ records[id].type \in {"video", "document"} =>
                  records[id].thumbnail = [url |-> <<>>, width |-> 0, height |-> 0])
    /\ [][\A id \in (DOMAIN records) \cap (DOMAIN records') :
            /\ records'[id].type = records[id].type
            /\ records'[id].thumbnail = records[id].thumbnail]_vars

\* An update has just cleared isProcessed on an image record that has its thumbnail
C27_ImagePatched ==
    /\ last.op = "update" /\ last.status = "ok"
    /\ last.id \in DOMAIN records
    /\ records[last.id].type = "image"
    /\ records[last.id].thumbnail.url # <<>>
    /\ ~records[last.id].isProcessed

\* The media type the prefix of a content type stands for
TypeOfPrefix(mimeType) ==
    CASE StartsWith(mimeType, "image/") -> "image"
      [] StartsWith(mimeType, "video/") -> "video"
      [] StartsWith(mimeType, "application/") -> "document"
      [] OTHER -> NoType

\* C28: a record's type is the one its content type's prefix stands for, and an
\* upload whose content type passed validation but has no such prefix fails as
\* an unsupported type, answered as a client error (4xx) and not as a server
\* error, having written no object and no record.
C28_TypeFromContentType ==
    [][last'.op = "upload" =>
         /\ last'.status = "ok" =>
               /\ TypeOfPrefix(last'.file.mimetype) # NoType
               /\ last'.value.type = TypeOfPrefix(last'.file.mimetype)
         /\ (validateFile(last'.file).valid /\ TypeOfPrefix(last'.file.mimetype) = NoType) =>
               /\ last'.status = "Error"
               /\ last'.error = "Unsupported MIME type"
               /\ errorMiddleware(last'.status) \in 400 .. 499
               /\ UNCHANGED <<records, objects, nextSeq, history>>]_vars

\* The records a step wrote to
ChangedIds == {id \in (DOMAIN records) \cap (DOMAIN records') : records'[id] # records[id]}

\* C29: with hard deletes of the same ids under way, softDelete returns success
\* only when its write set isActive = false on a record that existed when it
\* wrote, and the deleted count bulkSoftDelete returns is the number of records
\* its write changed.
C29_SoftDeleteReportsItsEffect ==
    [][ /\ (last'.op = "softDelete" /\ last'.status = "ok") =>
              /\ last'.id \in DOMAIN records
              /\ last'.id \in DOMAIN records'
              /\ ~records'[last'.id].isActive
        /\ (last'.op = "bulkSoftDelete" /\ last'.status = "ok") =>
              last'.deleted = Cardinality(ChangedIds)]_vars

\* C30: a step of update, softDelete, bulkSoftDelete, hardDelete or
\* bulkHardDelete, in any interleaving, never adds a record or an object: an
\* id that a hard delete removed names no record in any later state, and the
\* keys its objects were removed from stay empty.
C30_NoResurrection ==
    [][ /\ DOMAIN records' \subseteq DOMAIN records
        /\ DOMAIN objects' \subseteq DOMAIN objects
        /\ \A k \in DOMAIN objects' : objects'[k] = objects[k]]_vars

\* softDelete's write has just run on an id that a concurrent hardDelete had
\* removed after softDelete looked the record up
C30_WriteAfterRemoval ==
    /\ last.op = "softDelete" /\ last.status = "ok"
    /\ last.id \notin DOMAIN records
    /\ history[last.id].outcome = "ok"

====
